---------------------------- MODULE Spec2Model ----------------------------
(***************************************************************************)
(* A model of the W3Schools scraper (src/src/base.py, src/src/endpoints.py).*)
(*                                                                         *)
(* Spec      : one Base object in use at a time: the constructor, the page  *)
(*             download with its retry loop and its cache, the button       *)
(*             look-ups, pagination and get_headers.  A further call of the *)
(*             constructor makes a fresh object (its own empty cache).      *)
(* TopicSpec : get_topic applied to a header of a container whose children  *)
(*             are drawn from bounded sets.                                 *)
(*                                                                         *)
(* Strings are sequences of tokens, so that concatenation, strip and        *)
(* replace are computed.  Python values are records tagged by k.            *)
(***************************************************************************)
EXTENDS Integers, Sequences, FiniteSets, TLC

VARIABLES
    site,        \* environment: what the server holds at each URL
    pc,          \* "none" (no object), "idle", "fetching" (inside _download_page)
    base,        \* self._url
    url,         \* self.url
    soup,        \* self.soup
    main_div,    \* self.main_div
    pages,       \* self.pages
    page,        \* self.page
    counter,     \* self.__counter
    retry,       \* local variable retry of _download_page
    caller,      \* who called download_page: "__init__" or "_paginate"
    op,          \* the last operation called on the object
    exc,         \* the exception the last finished operation raised, or "none"
    ret,         \* the value the last finished operation returned
    requests,    \* history: HTTP requests issued by the current/last __init__ or _paginate
    lastResp,    \* history: the last HTTP outcome of the current/last __init__ or _paginate
    how,         \* history: how the last download_page ended
    fetched,     \* history: URLs fetched successfully in this process (any object)
    objFetched,  \* history: URLs fetched successfully by the object in use
    children,    \* TopicSpec: the children of the container, in document order
    topic        \* TopicSpec: the outcome of the last get_topic call

navVars == <<site, pc, base, url, soup, main_div, pages, page, counter, retry,
             caller, op, exc, ret, requests, lastResp, how, fetched, objFetched>>
topicVars == <<children, topic>>
vars == <<navVars, topicVars>>

---------------------------------------------------------------------------
(* Bounds *)

\* A guard on the history counter of HTTP requests (the code needs none).
MaxRequests == 7

---------------------------------------------------------------------------
(* Python values *)

Unset == [k |-> "unset"]      \* an attribute that was never assigned
None == [k |-> "None"]
NoRet == [k |-> "noret"]      \* the operation returned nothing (or raised)
NoMain == [k |-> "nomain"]    \* a document without a div of class w3-main
NoResp == [k |-> "noresp"]
NoTopic == [k |-> "notopic"]

Str(s) == [k |-> "str", v |-> s]
List(s) == [k |-> "list", v |-> s]

---------------------------------------------------------------------------
(* endpoints.py *)

NEXT == "w3-right w3-btn"
PREVIOUS == "w3-left w3-btn"
MAIN == "w3-main"
MAIN_TG == "div"

HTML == <<"https://www.w3schools.com/html/">>

EXCLUDE_TOPICS ==
    { <<"Test Yourself With Exercises">>,
      <<"Exercise">>,
      <<"Examples">> \o <<"Report Error">>,
      <<"Thank You For Helping Us!">> }

---------------------------------------------------------------------------
(* The web site: the environment of the navigation *)

Hrefs == {"p1.asp", "p2.asp"}
NoHref == "<no href>"

URLs == {HTML} \cup {HTML \o <<h>> : h \in Hrefs}

Anchor(cls, text, href) == [cls |-> cls, text |-> text, href |-> href]

AnchorLists ==
    { <<>>,
      << Anchor(NEXT, <<"Next", ">">>, "p1.asp") >>,
      << Anchor(PREVIOUS, <<"<", "Previous">>, "p1.asp"),
         Anchor(NEXT, <<"Next", ">">>, "p2.asp") >>,
      << Anchor(PREVIOUS, <<"<", "Home">>, "p1.asp"),
         Anchor(NEXT, <<"Next", ">">>, "p2.asp") >>,
      << Anchor(NEXT, <<"Home">>, "p1.asp"),
         Anchor(NEXT, <<"Next", ">">>, "p2.asp") >>,
      << Anchor(NEXT, <<"Next", ">">>, NoHref) >> }

\* The content of a div of class w3-main, as the navigation reads it: its
\* anchors and the texts of its h2 elements, in document order.
Main(a, h) == [k |-> "main", anchors |-> a, headers |-> h]

Mains ==
    { Main(a, << <<"HTML Introduction">> >>) : a \in AnchorLists }
    \cup { Main(<<>>, <<>>) }

Sites == [URLs -> Mains \cup {NoMain}]

\* response.text of an OK response for u, and the empty-document sentinel.
ResponseText(st, u) == [k |-> "html", url |-> u, main |-> st[u]]
Sentinel == [k |-> "html", url |-> <<>>, main |-> NoMain]

---------------------------------------------------------------------------
(* base.py: the page download *)

RETRY == 5

Outcomes == {"ReadTimeout", "ConnectionError", "not_ok", "ok"}

\* BeautifulSoup(response.text, HTML_PARSER)
Parse(text) == [k |-> "soup", url |-> text.url, main |-> text.main]

\* soup.prettify()
Prettify(s) == [k |-> "pretty", url |-> s.url, main |-> s.main]

\* soup.find("div", {"class": "w3-main"}): the element, or None
FindMain(s) ==
    IF s.main = NoMain THEN None
    ELSE [k |-> "div", class |-> MAIN, of |-> s.url,
          anchors |-> s.main.anchors, headers |-> s.main.headers]

\* Mutant: download_page never finds the page in self.pages.
CacheHit_Never(pgs, u) == FALSE

\* download_page, lines 100-104: whether self.pages[self.url] is there
CacheHit(pgs, u) == u \in DOMAIN pgs

\* Mutant: a non-OK response goes round the loop without using up a retry.
RetryAfter_NotOkFree(outcome, r) == IF outcome = "not_ok" THEN r ELSE r - 1

\* _download_page, lines 113-116 and 135-136: retry after a failed attempt
RetryAfter(outcome, r) == r - 1

\* Mutant: a document without the container is cached and returned.
OnOk_NoRaise(text, pgs, u) ==
    [exc |-> "none", soup |-> Parse(text), main_div |-> FindMain(Parse(text)),
     pages |-> (u :> Parse(text)) @@ pgs, ret |-> text]

\* _download_page, lines 122-133: an OK response
OnOk(text, pgs, u) ==
    LET s == Parse(text)
        m == FindMain(s)
    IN  IF m = None
        THEN [exc |-> "RuntimeError", soup |-> s, main_div |-> m,
              pages |-> pgs, ret |-> NoRet]
        ELSE [exc |-> "none", soup |-> s, main_div |-> m,
              pages |-> (u :> s) @@ pgs, ret |-> text]

\* The attributes of an object that does not exist.
NoObject ==
    /\ pc' = "none"
    /\ base' = <<>>
    /\ url' = <<>>
    /\ soup' = Unset
    /\ main_div' = Unset
    /\ pages' = <<>>
    /\ page' = Unset
    /\ counter' = -1
    /\ retry' = 0
    /\ caller' = "none"
    /\ objFetched' = {}

\* download_page returned normally to its caller: __init__ goes on to line 54.
Returned(text, who) ==
    /\ pc' = "idle"
    /\ page' = text
    /\ counter' = IF who = "__init__" THEN 0 ELSE counter
    /\ exc' = "none"
    /\ ret' = NoRet
    /\ retry' = 0

\* _download_page raised after assigning self.soup = s and self.main_div = m:
\* the exception leaves __init__ (no object is made) or _paginate (the object
\* stays, self.page unassigned).
Raised(e, s, m) ==
    /\ exc' = e
    /\ ret' = NoRet
    /\ IF caller = "__init__"
       THEN NoObject
       ELSE /\ pc' = "idle"
            /\ retry' = 0
            /\ soup' = s
            /\ main_div' = m
            /\ UNCHANGED <<base, url, pages, page, counter, caller, objFetched>>

\* download_page called with self.url = u and self.pages = pgs by who.
download_page(u, pgs, who) ==
    /\ caller' = who
    /\ requests' = 0
    /\ lastResp' = NoResp
    /\ IF CacheHit(pgs, u)
       THEN /\ soup' = pgs[u]
            /\ how' = "cache"
            /\ Returned(Prettify(pgs[u]), who)
            /\ UNCHANGED main_div
       ELSE /\ pc' = "fetching"
            /\ retry' = RETRY
            /\ how' = "pending"
            /\ exc' = "none"
            /\ ret' = NoRet
            \* the object __init__ is making has none of these attributes yet
            /\ soup' = IF who = "__init__" THEN Unset ELSE soup
            /\ main_div' = IF who = "__init__" THEN Unset ELSE main_div
            /\ page' = IF who = "__init__" THEN Unset ELSE page
            /\ counter' = IF who = "__init__" THEN -1 ELSE counter

\* Base(u): __init__
Base_init(u) ==
    /\ pc \in {"none", "idle"}
    /\ op' = "__init__"
    /\ base' = u
    /\ url' = u
    /\ pages' = <<>>
    /\ objFetched' = {}
    /\ download_page(u, <<>>, "__init__")
    /\ UNCHANGED <<site, fetched, topicVars>>

\* One iteration of the loop of _download_page: one HTTP request.
download_attempt(outcome) ==
    /\ pc = "fetching"
    /\ retry > 0
    /\ requests < MaxRequests
    /\ requests' = requests + 1
    /\ lastResp' = [outcome |-> outcome,
                    main |-> IF outcome = "ok" THEN site[url] ELSE NoMain]
    /\ IF outcome = "ok"
       THEN LET r == OnOk(ResponseText(site, url), pages, url)
            IN  IF r.exc = "none"
                THEN /\ soup' = r.soup
                     /\ main_div' = r.main_div
                     /\ pages' = r.pages
                     /\ how' = "fetched"
                     /\ fetched' = fetched \cup {url}
                     /\ objFetched' = objFetched \cup {url}
                     /\ Returned(r.ret, caller)
                     /\ UNCHANGED <<base, url, caller>>
                ELSE /\ how' = "raised"
                     /\ Raised(r.exc, r.soup, r.main_div)
                     /\ UNCHANGED fetched
       ELSE /\ retry' = RetryAfter(outcome, retry)
            /\ IF retry' = 0
               THEN /\ how' = "exhausted"
                    /\ pc' = "idle"
                    /\ page' = Sentinel
                    /\ counter' = IF caller = "__init__" THEN 0 ELSE counter
               ELSE /\ pc' = "fetching"
                    /\ UNCHANGED <<how, page, counter>>
            /\ UNCHANGED <<base, url, soup, main_div, pages, caller, exc, ret,
                           fetched, objFetched>>
    /\ UNCHANGED <<site, op, topicVars>>

---------------------------------------------------------------------------
(* base.py: buttons, pagination, headers *)

Contains(text, name) == \E i \in 1..Len(text) : text[i] = name

\* main_div.find("a", {"class": finder}): the first such anchor, or None
FindAnchor(div, finder) ==
    LET idx == {i \in 1..Len(div.anchors) : div.anchors[i].cls = finder}
    IN  IF idx = {} THEN None
        ELSE div.anchors[CHOOSE i \in idx : \A j \in idx : i <= j]

\* _get_button_endpoint
get_button_endpoint(div, finder, button_name) ==
    IF div \in {Unset, None}
    THEN [exc |-> "AttributeError", ret |-> NoRet]
    ELSE LET anchor == FindAnchor(div, finder)
         IN  IF anchor # None /\ Contains(anchor.text, button_name)
             THEN IF anchor.href = NoHref
                  THEN [exc |-> "KeyError", ret |-> NoRet]
                  ELSE [exc |-> "none", ret |-> Str(<<anchor.href>>)]
             ELSE [exc |-> "none", ret |-> None]

\* get_next_button_url / get_previous_button_url
button_url(b, div, finder, button_name) ==
    LET e == get_button_endpoint(div, finder, button_name)
    IN  IF e.exc # "none" THEN e
        ELSE IF e.ret # None
             THEN [exc |-> "none", ret |-> Str(b \o e.ret.v)]
             ELSE [exc |-> "none", ret |-> None]

Finder(to) == IF to = "next" THEN NEXT ELSE PREVIOUS
ButtonName(to) == IF to = "next" THEN "Next" ELSE "Previous"

\* get_next_button_url() / get_previous_button_url() called by the user
get_button_url(to) ==
    /\ pc = "idle"
    /\ LET r == button_url(base, main_div, Finder(to), ButtonName(to))
       IN  /\ exc' = r.exc
           /\ ret' = r.ret
    /\ op' = "get_" \o to \o "_button_url"
    /\ UNCHANGED <<site, pc, base, url, soup, main_div, pages, page, counter,
                   retry, caller, requests, lastResp, how, fetched, objFetched,
                   topicVars>>

\* paginate_next() / paginate_prev(): _paginate(to=...)
paginate(to) ==
    /\ pc = "idle"
    /\ op' = "paginate_" \o to
    /\ LET r == button_url(base, main_div, Finder(to), ButtonName(to))
       IN  IF r.exc # "none" \/ r.ret = None
           THEN /\ exc' = IF r.exc # "none" THEN r.exc ELSE "RuntimeError"
                /\ ret' = NoRet
                /\ requests' = 0
                /\ lastResp' = NoResp
                /\ UNCHANGED <<pc, base, url, soup, main_div, pages, page,
                               counter, retry, caller, how, objFetched>>
           ELSE /\ url' = r.ret.v
                /\ download_page(r.ret.v, pages, "_paginate")
                /\ UNCHANGED <<base, pages, objFetched>>
    /\ UNCHANGED <<site, fetched, topicVars>>

\* get_headers()
find_all_h2(div) ==
    IF div \in {Unset, None}
    THEN [exc |-> "AttributeError", ret |-> NoRet]
    ELSE [exc |-> "none", ret |-> List(div.headers)]

get_headers ==
    /\ pc = "idle"
    /\ op' = "get_headers"
    /\ exc' = find_all_h2(main_div).exc
    /\ ret' = find_all_h2(main_div).ret
    /\ UNCHANGED <<site, pc, base, url, soup, main_div, pages, page, counter,
                   retry, caller, requests, lastResp, how, fetched, objFetched,
                   topicVars>>

---------------------------------------------------------------------------
(* The navigation's specification *)

Init ==
    /\ site \in Sites
    /\ pc = "none"
    /\ base = <<>>
    /\ url = <<>>
    /\ soup = Unset
    /\ main_div = Unset
    /\ pages = <<>>
    /\ page = Unset
    /\ counter = -1
    /\ retry = 0
    /\ caller = "none"
    /\ op = "none"
    /\ exc = "none"
    /\ ret = NoRet
    /\ requests = 0
    /\ lastResp = NoResp
    /\ how = "none"
    /\ fetched = {}
    /\ objFetched = {}
    /\ children = <<>>
    /\ topic = NoTopic

Next ==
    \/ Base_init(HTML)
    \/ \E o \in Outcomes : download_attempt(o)
    \/ \E to \in {"next", "previous"} : get_button_url(to)
    \/ \E to \in {"next", "previous"} : paginate(to)
    \/ get_headers

Spec == Init /\ [][Next]_vars

---------------------------------------------------------------------------
(* base.py: texts *)

Whitespace == {" ", "\n"}

RECURSIVE LStrip(_)
LStrip(s) ==
    IF s # <<>> /\ Head(s) \in Whitespace THEN LStrip(Tail(s)) ELSE s

RECURSIVE RStrip(_)
RStrip(s) ==
    IF s # <<>> /\ s[Len(s)] \in Whitespace
    THEN RStrip(SubSeq(s, 1, Len(s) - 1))
    ELSE s

\* str.strip()
Strip(s) == RStrip(LStrip(s))

\* str.replace(old, "\n"), old one token
Replace(s, old) == [i \in 1..Len(s) |-> IF s[i] = old THEN "\n" ELSE s[i]]

\* __string_parse
string_parse(string) == Replace(Replace(Strip(string), "<br>"), "<br/>")

---------------------------------------------------------------------------
(* The children of the container: the input of get_topic *)

MaxSiblings == 3
MaxItems == 2

NoImg == <<>>
NoCode == <<>>
Missing == [k |-> "missing"]   \* an argument the call does not pass

\* An element: its tag, its class attribute (has: whether there is one), its
\* .text, its first img (<<>>: none, <<"img">>: one without src, <<"img", s>>:
\* one with src s), the .text of each li in it, and the markup of its nested
\* div of class w3-code (<<>>: none, << m >>: one with markup m).
Elem(tag, has, class, text, img, items, code) ==
    [tag |-> tag, has |-> has, class |-> class, text |-> text, img |-> img,
     items |-> items, code |-> code]

Tag(tag, text) == Elem(tag, FALSE, {}, text, NoImg, <<>>, NoCode)
Div(class, text, code) == Elem("div", TRUE, class, text, NoImg, <<>>, code)

Headers ==
    { Tag("h2", <<"HTML Introduction">>), Tag("h2", <<"Exercise">>),
      Tag("h2", <<"Examples">>) }

Hr == Tag("hr", <<>>)

ParagraphTexts == { <<>>, <<"x">>, <<" ">>, <<" ", "x", "<br>", "y", "\n">> }
Imgs == { NoImg, <<"img">>, <<"img", "pic.png">> }

Paragraphs ==
    { Elem("p", FALSE, {}, t, i, <<>>, NoCode) : t \in ParagraphTexts, i \in Imgs }

ItemTexts == { <<"a">>, <<" ", "b", " ">>, <<"c", "<br/>", "d">> }

ItemLists ==
    UNION { [1..n -> ItemTexts] : n \in 0..MaxItems }

Lists ==
    { Elem(t, FALSE, {}, <<>>, NoImg, items, NoCode) :
        t \in {"ul", "ol"}, items \in ItemLists }

CodeMarkup == <<" ", "x", "<br/>", "y", "<br/>">>

Divs ==
    { Elem("div", FALSE, {}, <<"d">>, NoImg, <<>>, NoCode),
      Div({"w3-clear"}, <<"c">>, NoCode),
      Div({"w3-clear", "w3-panel"}, <<"c">>, NoCode),
      Div({"w3-panel", "w3-note"}, <<" ", "note", "<br>", "more">>, NoCode),
      Div({"w3-example"}, <<"e">>, << CodeMarkup >>),
      Div({"w3-example"}, <<"e">>, NoCode),
      Div({"w3-white"}, <<"w">>, NoCode),
      Div({}, <<"w">>, NoCode) }

Tables == { Tag("table", <<"r1", "r2">>) }

Others == { Hr, Tag("h3", <<"t">>) }

\* Every kind of sibling, and the few that make up the longer chains.
RichElements == Paragraphs \cup Lists \cup Divs \cup Tables \cup Others \cup Headers

CoarseElements ==
    { Elem("p", FALSE, {}, <<"x">>, NoImg, <<>>, NoCode),
      Elem("ul", FALSE, {}, <<>>, NoImg, << <<"a">> >>, NoCode),
      Elem("div", FALSE, {}, <<"d">>, NoImg, <<>>, NoCode),
      Div({"w3-clear"}, <<"c">>, NoCode),
      Div({"w3-panel", "w3-note"}, <<" ", "note", "<br>", "more">>, NoCode),
      Tag("table", <<"r1", "r2">>),
      Hr,
      Tag("h2", <<"Exercise">>) }

Chains ==
    (UNION { [1..n -> CoarseElements] : n \in 0..MaxSiblings })
    \cup { <<e, f>> : e \in RichElements, f \in {Hr} \cup Paragraphs }
    \cup { <<e>> : e \in RichElements }

---------------------------------------------------------------------------
(* base.py: get_topic *)

\* header.find_next_sibling(): the index of the next element, or 0 for None
find_next_sibling(ch, i) == IF i < Len(ch) THEN i + 1 ELSE 0

\* Mutant: an hr does not end the chain.
get_h2_sibling_NoStop(ch, i) == find_next_sibling(ch, i)

\* get_h2_sibling
get_h2_sibling(ch, i) ==
    LET sib == find_next_sibling(ch, i)
    IN  IF sib # 0 /\ ch[sib].tag = "hr" THEN 0 ELSE sib

\* _get_all_h2_siblings
RECURSIVE all_h2_siblings_from(_, _)
all_h2_siblings_from(ch, sib) ==
    IF sib = 0 THEN <<>>
    ELSE <<sib>> \o all_h2_siblings_from(ch, get_h2_sibling(ch, sib))

get_all_h2_siblings(ch, header) == all_h2_siblings_from(ch, get_h2_sibling(ch, header))

\* to_image(soup, filename=...), render: what imgkit does ("ok" or "OSError")
to_image(c, sp, filename, render) ==
    IF filename = Missing
    THEN [exc |-> "TypeError", ret |-> NoRet, counter |-> c]
    ELSE IF filename = Str(<<>>) /\ ~sp.has
    THEN [exc |-> "KeyError", ret |-> NoRet, counter |-> c]
    ELSE IF render = "OSError"
    THEN [exc |-> "none", ret |-> Str(<<>>), counter |-> c]
    ELSE [exc |-> "none",
          ret |-> IF filename = Str(<<>>)
                  THEN Str(<<"/files/", sp.tag, ".">>)
                  ELSE filename,
          counter |-> c + 1]

\* Mutant: "\n".join(...), a newline between consecutive items only.
RECURSIVE ListText_Joined(_)
ListText_Joined(items) ==
    IF items = <<>> THEN <<>>
    ELSE IF Len(items) = 1 THEN string_parse(Head(items))
    ELSE string_parse(Head(items)) \o <<"\n">> \o ListText_Joined(Tail(items))

\* "".join("\n" + self.__string_parse(li.text) for li in sibling.find_all("li"))
RECURSIVE ListText(_)
ListText(items) ==
    IF items = <<>> THEN <<>>
    ELSE <<"\n">> \o string_parse(Head(items)) \o ListText(Tail(items))

\* BeautifulSoup(str(internal_sibling).replace("<br/>", "\n"), HTML_PARSER).text
CodeText(markup) == Replace(markup, "<br/>")

\* str(sibling)
Markup(sib) == <<"<" \o sib.tag \o ">">> \o sib.text \o <<"</" \o sib.tag \o ">">>

\* str(convert_tables(str(sibling))[0])
TableText(sib) == <<"[">> \o sib.text \o <<"]">>

\* One turn of the loop of get_topic, lines 227-273: the payloads the sibling
\* appends to payload["rest"] (none or one), or the exception it raises.
Emit(payload) == [exc |-> "none", rest |-> <<payload>>]
Nothing == [exc |-> "none", rest |-> <<>>]

Classify(b, c, sibling, render) ==
    IF sibling.tag = "p"
    THEN LET text == string_parse(sibling.text)
         IN  IF Len(sibling.img) = 2
             THEN IF sibling.text = <<>>
                  THEN Emit([text |-> text, type |-> "img",
                             url |-> b \o <<sibling.img[2]>>])
                  ELSE Emit([text |-> text, type |-> "img"])
             ELSE Emit([text |-> text, type |-> "p"])
    ELSE IF sibling.tag \in {"ul", "ol"}
    THEN Emit([text |-> ListText(sibling.items), type |-> sibling.tag])
    ELSE IF sibling.tag = "div"
    THEN IF sibling.has /\ "w3-clear" \in sibling.class
         THEN Nothing
         ELSE IF sibling.has /\ "w3-panel" \in sibling.class
         THEN Emit([text |-> string_parse(sibling.text), type |-> "panel"])
         ELSE IF sibling.has /\ "w3-example" \in sibling.class
         THEN IF sibling.code # NoCode
              THEN Emit([text |-> string_parse(CodeText(sibling.code[1])),
                         type |-> "code"])
              ELSE Nothing
         ELSE IF ~sibling.has
         THEN LET f == to_image(c, sibling, Missing, render)
              IN  IF f.exc # "none"
                  THEN [exc |-> f.exc, rest |-> <<>>]
                  ELSE Emit([text |-> Markup(sibling), type |-> "div",
                             file |-> f.ret.v])
         ELSE Nothing
    ELSE IF sibling.tag = "table"
    THEN Emit([text |-> TableText(sibling), type |-> "table"])
    ELSE Nothing

\* The loop of get_topic over siblings (indices into ch).
RECURSIVE Collect(_, _, _, _, _)
Collect(b, c, ch, siblings, render) ==
    IF siblings = <<>> THEN Nothing
    ELSE LET one == Classify(b, c, ch[Head(siblings)], render)
         IN  IF one.exc # "none" THEN one
             ELSE LET more == Collect(b, c, ch, Tail(siblings), render)
                  IN  IF more.exc # "none" THEN more
                      ELSE [exc |-> "none", rest |-> one.rest \o more.rest]

\* get_topic(header): the dict returned, or the exception raised
get_topic(b, c, ch, header, render) ==
    LET siblings == get_all_h2_siblings(ch, header)
    IN  IF ch[header].text \in EXCLUDE_TOPICS
        THEN [exc |-> "none", ret |-> <<>>]
        ELSE LET r == Collect(b, c, ch, siblings, render)
             IN  IF r.exc # "none"
                 THEN [exc |-> r.exc, ret |-> NoRet]
                 ELSE [exc |-> "none",
                       ret |-> [header |-> ch[header].text, rest |-> r.rest]]

\* get_topic(children[h]) called by the user
call_get_topic(h, render) ==
    /\ pc = "idle"
    /\ children[h].tag = "h2"
    /\ topic' = [header |-> h,
                 out |-> get_topic(base, counter, children, h, render)]
    /\ UNCHANGED <<navVars, children>>

\* An object constructed on HTML, whose container has the children drawn.
TopicSite == [u \in URLs |-> Main(<<>>, <<>>)]

TopicInit ==
    /\ site = TopicSite
    /\ pc = "idle"
    /\ base = HTML
    /\ url = HTML
    /\ soup = Parse(ResponseText(TopicSite, HTML))
    /\ main_div = FindMain(Parse(ResponseText(TopicSite, HTML)))
    /\ pages = (HTML :> Parse(ResponseText(TopicSite, HTML)))
    /\ page = ResponseText(TopicSite, HTML)
    /\ counter = 0
    /\ retry = 0
    /\ caller = "__init__"
    /\ op = "__init__"
    /\ exc = "none"
    /\ ret = NoRet
    /\ requests = 1
    /\ lastResp = [outcome |-> "ok", main |-> TopicSite[HTML]]
    /\ how = "fetched"
    /\ fetched = {HTML}
    /\ objFetched = {HTML}
    /\ \E hd \in Headers, chain \in Chains : children = <<hd>> \o chain
    /\ topic = NoTopic

TopicNext ==
    \E h \in 1..Len(children), render \in {"ok", "OSError"} : call_get_topic(h, render)

TopicSpec == TopicInit /\ [][TopicNext]_vars

---------------------------------------------------------------------------
(* Properties of the navigation (checked under Spec) *)

DownloadOps == {"__init__", "paginate_next", "paginate_previous"}

\* The last HTTP request of the download failed (timeout, connection error or
\* non-OK response).
LastFailed == lastResp # NoResp /\ lastResp.outcome # "ok"

\* C1: when every fetch attempt for a URL fails, in the constructor or after
\* paginate_next/paginate_prev, the fetch raises nothing and the object holds
\* an empty document: get_headers returns zero headers and raises nothing.
C1_ExhaustedFetchGivesEmptyDocument ==
    (pc = "idle" /\ how = "exhausted") =>
        /\ op \in DownloadOps => exc = "none"
        /\ find_all_h2(main_div) = [exc |-> "none", ret |-> List(<<>>)]

\* C2: a download (from the constructor or from paginate_next/paginate_prev)
\* whose OK response holds a document without a div of class w3-main raises
\* RuntimeError, and such a document is never cached as a page.
C2_MissingContainerRaises ==
    /\ (pc # "fetching" /\ op \in DownloadOps /\ lastResp # NoResp
            /\ lastResp.outcome = "ok" /\ lastResp.main = NoMain)
        => (exc = "RuntimeError" /\ how = "raised")
    /\ \A u \in DOMAIN pages : pages[u].main # NoMain

C2_Witness ==
    /\ op = "paginate_next"
    /\ pc = "idle"
    /\ lastResp # NoResp
    /\ lastResp.outcome = "ok"
    /\ lastResp.main = NoMain
    /\ exc = "RuntimeError"

\* C3 as stated: the cache is process-wide, so no HTTP request is ever issued
\* for a URL that some Base object of the process has fetched successfully.
C3_ProcessWideCache ==
    pc = "fetching" => url \notin fetched

\* C3 as amended: the cache belongs to the Base object.  It holds exactly the
\* URLs this object fetched successfully, no HTTP request is issued for such a
\* URL again by this object, and a navigation served from the cache issues no
\* request and takes the cached document as soup.
C3_PerObjectCache ==
    /\ pc = "fetching" => url \notin objFetched
    /\ DOMAIN pages = objFetched
    /\ (pc = "idle" /\ how = "cache") =>
            (requests = 0 /\ url \in objFetched /\ soup = pages[url])

C3_Witness ==
    /\ pc = "idle"
    /\ op = "paginate_previous"
    /\ how = "cache"
    /\ exc = "none"
    /\ Cardinality(objFetched) >= 2

\* C4: one call of the page fetch issues at most 5 HTTP requests, every failed
\* attempt (timeout, connection error, non-OK response) uses one of them up,
\* and when all 5 fail the call returns the sentinel and raises nothing.
C4_BoundedRetry ==
    /\ requests <= RETRY
    /\ pc = "fetching" => (retry >= 1 /\ requests + retry = RETRY)
    /\ (pc # "fetching" /\ LastFailed) =>
            /\ requests = RETRY
            /\ how = "exhausted"
            /\ pc = "idle"
            /\ page = Sentinel
            /\ op \in DownloadOps => exc = "none"
    /\ how = "exhausted" => page = Sentinel

C4_Witness ==
    /\ how = "exhausted"
    /\ op = "paginate_next"
    /\ requests = RETRY
    /\ lastResp # NoResp
    /\ lastResp.outcome = "not_ok"
    /\ page = Sentinel

\* The anchors of the container of the page named by url that have the class
\* and the text of the button.
Matching(to) ==
    {i \in 1..Len(site[url].anchors) :
        /\ site[url].anchors[i].cls = Finder(to)
        /\ Contains(site[url].anchors[i].text, ButtonName(to))}

ButtonClaim(to) ==
    (pc = "idle" /\ op = "get_" \o to \o "_button_url" /\ site[url] # NoMain) =>
        /\ exc = "none"
        /\ IF Matching(to) = {}
           THEN ret = None
           ELSE \E i \in Matching(to) :
                    ret = Str(base \o <<site[url].anchors[i].href>>)

\* C6: get_next_button_url (resp. get_previous_button_url) raises nothing; it
\* returns None when the current page's container has no anchor of the button
\* class whose text contains "Next" (resp. "Previous"), and the base URL
\* concatenated with the href of such an anchor when there is one.
C6_ButtonUrl ==
    ButtonClaim("next") /\ ButtonClaim("previous")

\* C10: after the constructor or a paginate call returns normally, soup is
\* the document of the current url and main_div is the container of soup.
C10_ObjectConsistent ==
    (pc = "idle" /\ op \in DownloadOps /\ exc = "none") =>
        /\ soup # Unset
        /\ soup.url = url
        /\ main_div = FindMain(soup)

---------------------------------------------------------------------------
(* Properties of get_topic (checked under TopicSpec) *)

\* The index of the first hr after the header, or one past the last child.
FirstHr(ch, h) ==
    LET hrs == {j \in (h + 1)..Len(ch) : ch[j].tag = "hr"}
    IN  IF hrs = {} THEN Len(ch) + 1
        ELSE CHOOSE j \in hrs : \A i \in hrs : j <= i

\* The siblings strictly between the header and the first hr after it.
Between(ch, h) == SubSeq(ch, h + 1, FirstHr(ch, h) - 1)

RECURSIVE SegmentsOf(_)
SegmentsOf(elems) ==
    IF elems = <<>> THEN <<>>
    ELSE Classify(base, counter, Head(elems), "ok").rest \o SegmentsOf(Tail(elems))

Raises(elems) ==
    \E i \in 1..Len(elems) : Classify(base, counter, elems[i], "ok").exc # "none"

Excluded == children[topic.header].text \in EXCLUDE_TOPICS

\* A Topic was returned: get_topic did not raise and the header is not excluded.
TopicReturned ==
    /\ topic # NoTopic
    /\ topic.out.exc = "none"
    /\ topic.out.ret # <<>>

IsList(e) == e.tag \in {"ul", "ol"}
IsListSegment(g) == g.type \in {"ul", "ol"}
IsParagraph(e) == e.tag = "p"
IsParagraphSegment(g) == g.type \in {"p", "img"}

\* C5: the segments of the Topic are those of the siblings strictly between
\* the header and the first hr after it (or the end), in document order, and
\* no sibling at or after that hr contributes (not even an exception).
C5_StopsAtFirstHr ==
    (topic # NoTopic /\ ~Excluded) =>
        IF Raises(Between(children, topic.header))
        THEN topic.out.exc # "none"
        ELSE /\ topic.out.exc = "none"
             /\ topic.out.ret.header = children[topic.header].text
             /\ topic.out.ret.rest = SegmentsOf(Between(children, topic.header))

C5_Witness ==
    /\ TopicReturned
    /\ Len(children) = 4
    /\ children[2].tag = "p"
    /\ children[3].tag = "hr"
    /\ children[4].tag = "table"
    /\ Len(topic.out.ret.rest) = 1

\* C7: get_topic returns normally for every header and every sequence of
\* siblings (a class-less div included).
C7_GetTopicTotal ==
    topic # NoTopic => topic.out.exc = "none"

\* s[1] \o sep \o s[2] \o ... \o sep \o s[n]
RECURSIVE Join(_, _)
Join(sep, s) ==
    IF s = <<>> THEN <<>>
    ELSE IF Len(s) = 1 THEN s[1]
    ELSE s[1] \o sep \o Join(sep, Tail(s))

Normalized(items) == [i \in 1..Len(items) |-> string_parse(items[i])]

ListSiblings == SelectSeq(Between(children, topic.header), IsList)
ListSegments == SelectSeq(topic.out.ret.rest, IsListSegment)

\* C8 as stated: the text of a list's Segment is the normalized texts of its
\* items joined by single newlines (between consecutive items only), and its
\* kind is the tag.
C8_NewlineJoined ==
    TopicReturned =>
        /\ Len(ListSegments) = Len(ListSiblings)
        /\ \A i \in 1..Len(ListSiblings) :
                ListSegments[i] =
                    [text |-> Join(<<"\n">>, Normalized(ListSiblings[i].items)),
                     type |-> ListSiblings[i].tag]

\* C8 as amended: every list sibling before the hr gives one Segment, in
\* order, whose kind is the tag and whose text is, for a list with items, a
\* newline followed by the newline-joined normalized item texts (each item,
\* the first included, is preceded by one newline), and empty for none.
C8_NewlinePrefixed ==
    TopicReturned =>
        /\ Len(ListSegments) = Len(ListSiblings)
        /\ \A i \in 1..Len(ListSiblings) :
                ListSegments[i] =
                    [text |-> IF ListSiblings[i].items = <<>> THEN <<>>
                              ELSE <<"\n">> \o
                                   Join(<<"\n">>, Normalized(ListSiblings[i].items)),
                     type |-> ListSiblings[i].tag]

C8_Witness ==
    /\ TopicReturned
    /\ Len(ListSiblings) = 1
    /\ ListSiblings[1].tag = "ol"
    /\ ListSiblings[1].items = << <<" ", "b", " ">>, <<"c", "<br/>", "d">> >>
    /\ ListSegments[1].text = <<"\n", "b", "\n", "c", "\n", "d">>

ParagraphSiblings == SelectSeq(Between(children, topic.header), IsParagraph)
ParagraphSegments == SelectSeq(topic.out.ret.rest, IsParagraphSegment)

\* C9: a paragraph sibling gives a Segment of kind img, with url = base URL +
\* src, exactly when it holds an image with a src and no text; every other
\* paragraph sibling gives a Segment of kind p with its normalized text.
C9_ImageOnlyParagraph ==
    TopicReturned =>
        /\ Len(ParagraphSegments) = Len(ParagraphSiblings)
        /\ \A i \in 1..Len(ParagraphSiblings) :
                LET e == ParagraphSiblings[i]
                    g == ParagraphSegments[i]
                IN  IF Len(e.img) = 2 /\ e.text = <<>>
                    THEN /\ g.type = "img"
                         /\ "url" \in DOMAIN g
                         /\ g.url = base \o <<e.img[2]>>
                    ELSE g = [text |-> string_parse(e.text), type |-> "p"]

=============================================================================
